---- MODULE Spec2Model ----
(***************************************************************************)
(* csfloat-export: the rate-limited, paginated fetch of the trade history  *)
(* (fetch_csfloat_trades), its normalisation (process_trades, format_price,*)
(* safe_float), the CSV export (export_to_csv) and the orchestration       *)
(* (async_main) of src/csfloat_export.py.                                  *)
(*                                                                         *)
(* Conventions of the model                                                *)
(*  - A JSON / Python value is a record [t, s, n, e]: t is its type tag,   *)
(*    s the characters of a string, n an integer (or a float's digits),    *)
(*    e the number of fraction digits of a float.                          *)
(*  - A string is the sequence of its characters, so that slicing,         *)
(*    splitting, parsing and comparing are computed, not assumed.          *)
(*  - A price in dollars with two fraction digits is held as the integer   *)
(*    number of cents (100.00 is 10000).                                   *)
(*  - A step of a coroutine between two awaits is one action; the clock    *)
(*    `now` (time.time(), in seconds) moves only at awaits.                *)
(***************************************************************************)
EXTENDS Integers, Sequences, FiniteSets, TLC

VARIABLES
    API_KEY,            \* module constant read from the environment (line 33)
    STEAM_ID,           \* module constant read from the environment (line 32)
    server,             \* the remote API's data: per role, the trades it holds
    now,                \* time.time()
    pc,                 \* position of async_main / fetch_csfloat_trades
    role,               \* role argument of the current fetch / process call
    page,               \* fetch_csfloat_trades: page
    all_trades,         \* fetch_csfloat_trades: all_trades
    last_request_time,  \* fetch_csfloat_trades: last_request_time
    sessions,           \* number of open aiohttp.ClientSession objects
    requests,           \* every GET issued so far: [role, page, at, answer]
    trades,             \* async_main: purchase_trades / sale_trades
    processed,          \* async_main: processed_purchases / processed_sales
    files               \* the two output files

vars == <<API_KEY, STEAM_ID, server, now, pc, role, page, all_trades,
          last_request_time, sessions, requests, trades, processed, files>>

(***************************************************************************)
(* Bounds of the model and constants of the program                        *)
(***************************************************************************)
MaxTrades == 2          \* longest raw trade list given to process_trades
MaxPrice == 130         \* largest price (cents) of the price sweep
MaxPages == 2           \* most full pages the remote API holds for a role
MaxServerTrades == 2    \* most trades the API holds for a role in a whole run

RATE_LIMIT == 120
PAGE_LIMIT == 500
DATE_LEN == 10

Roles == {"buyer", "seller"}

(***************************************************************************)
(* Python values                                                           *)
(***************************************************************************)
None == [t |-> "none", s |-> <<>>, n |-> 0, e |-> 0]
Absent == [t |-> "absent", s |-> <<>>, n |-> 0, e |-> 0]
StrV(chars) == [t |-> "str", s |-> chars, n |-> 0, e |-> 0]
IntV(i) == [t |-> "int", s |-> <<>>, n |-> i, e |-> 0]
FltV(m, k) == [t |-> "float", s |-> <<>>, n |-> m, e |-> k]
ListV == [t |-> "list", s |-> <<>>, n |-> 1, e |-> 0]

\* dict.get(key, default): the default stands in for an absent key only
Get(v, default) == IF v.t = "absent" THEN default ELSE v

\* Python truthiness, as `not date_str` and `not API_KEY` test it
Truthy(v) ==
    CASE v.t \in {"none", "absent"} -> FALSE
      [] v.t = "str" -> v.s # <<>>
      [] v.t = "int" -> v.n # 0
      [] v.t = "float" -> v.n # 0
      [] v.t = "list" -> TRUE

(***************************************************************************)
(* Characters and strings                                                  *)
(***************************************************************************)
\* the characters the model uses, in code point order
CharOrder == <<" ", "+", "-", ".", "0", "1", "2", "3", "4", "5", "6", "7",
               "8", "9", ":", "T", "Z", "a", "b", "c", "e", "g", "r", "x",
               "y", "z">>

Ord(c) == CHOOSE i \in 1..Len(CharOrder) : CharOrder[i] = c

Digits == <<"0", "1", "2", "3", "4", "5", "6", "7", "8", "9">>

IsDigit(c) == \E d \in 1..10 : Digits[d] = c

DigitVal(c) == (CHOOSE d \in 1..10 : Digits[d] = c) - 1

AllDigits(s) == \A i \in 1..Len(s) : IsDigit(s[i])

\* int(s) of a string of decimal digits
RECURSIVE ToInt(_)
ToInt(s) ==
    IF s = <<>> THEN 0
    ELSE 10 * ToInt(SubSeq(s, 1, Len(s) - 1)) + DigitVal(s[Len(s)])

\* s[a:b] of Python, for 0 <= a <= b (both clipped to the length)
Slice(s, a, b) ==
    LET hi == IF b < Len(s) THEN b ELSE Len(s)
    IN  IF a >= hi THEN <<>> ELSE SubSeq(s, a + 1, hi)

\* s.find(c) + 1: the position of the first c, 0 when there is none
Find(s, c) ==
    IF \E i \in 1..Len(s) : s[i] = c
    THEN CHOOSE i \in 1..Len(s) : s[i] = c /\ \A j \in 1..(i - 1) : s[j] # c
    ELSE 0

\* date_str.replace('Z', '+00:00')
RECURSIVE ReplaceZ(_)
ReplaceZ(s) ==
    IF s = <<>> THEN <<>>
    ELSE (IF Head(s) = "Z" THEN <<"+", "0", "0", ":", "0", "0">>
          ELSE <<Head(s)>>) \o ReplaceZ(Tail(s))

\* a < b for Python strings: lexicographic by code point
RECURSIVE StrLess(_, _)
StrLess(a, b) ==
    IF b = <<>> THEN FALSE
    ELSE IF a = <<>> THEN TRUE
    ELSE IF Head(a) # Head(b) THEN Ord(Head(a)) < Ord(Head(b))
    ELSE StrLess(Tail(a), Tail(b))

(***************************************************************************)
(* datetime.fromisoformat / strftime('%Y-%m-%d')  (library code called at  *)
(* lines 168-169).  The grammar is the one every CPython >= 3.7 accepts:   *)
(*   YYYY-MM-DD [ sep HH[:MM[:SS[.fff|.ffffff]]] [ (+|-)HH:MM ] ]          *)
(* Anything else is a ValueError.                                          *)
(***************************************************************************)
IsLeap(y) == (y % 4 = 0 /\ y % 100 # 0) \/ y % 400 = 0

DaysInMonth(y, m) ==
    IF m = 2 THEN (IF IsLeap(y) THEN 29 ELSE 28)
    ELSE IF m \in {4, 6, 9, 11} THEN 30 ELSE 31

\* the calendar date part: "YYYY-MM-DD" with a real day of a real month
IsoDateOK(d) ==
    /\ Len(d) = DATE_LEN
    /\ AllDigits(SubSeq(d, 1, 4)) /\ d[5] = "-"
    /\ AllDigits(SubSeq(d, 6, 7)) /\ d[8] = "-"
    /\ AllDigits(SubSeq(d, 9, 10))
    /\ LET y == ToInt(SubSeq(d, 1, 4))
           m == ToInt(SubSeq(d, 6, 7))
           dd == ToInt(SubSeq(d, 9, 10))
       IN  y >= 1 /\ m \in 1..12 /\ dd >= 1 /\ dd <= DaysInMonth(y, m)

\* HH[:MM[:SS[.fff|.ffffff]]], each component within `limits`
HmsOK(x, hmax) ==
    LET n == Len(x)
        two(i) == AllDigits(SubSeq(x, i, i + 1))
        val(i) == ToInt(SubSeq(x, i, i + 1))
    IN  /\ n >= 2 /\ two(1) /\ val(1) <= hmax
        /\ \/ n = 2
           \/ /\ n >= 5 /\ x[3] = ":" /\ two(4) /\ val(4) <= 59
              /\ \/ n = 5
                 \/ /\ n >= 8 /\ x[6] = ":" /\ two(7) /\ val(7) <= 59
                    /\ \/ n = 8
                       \/ /\ n \in {12, 15} /\ x[9] = "."
                          /\ AllDigits(SubSeq(x, 10, n))

\* the time part, with its optional UTC offset
IsoTimeOK(x) ==
    LET minus == Find(x, "-")
        tz == IF minus > 0 THEN minus ELSE Find(x, "+")
    IN  IF tz = 0 THEN HmsOK(x, 23)
        ELSE /\ HmsOK(SubSeq(x, 1, tz - 1), 23)
             /\ Len(x) - tz = 5
             /\ HmsOK(SubSeq(x, tz + 1, Len(x)), 23)

\* whether datetime.fromisoformat(x) returns (TRUE) or raises ValueError
IsoParses(x) ==
    /\ Len(x) >= DATE_LEN
    /\ IsoDateOK(SubSeq(x, 1, DATE_LEN))
    /\ \/ Len(x) = DATE_LEN
       \/ Len(x) > DATE_LEN + 1 /\ IsoTimeOK(SubSeq(x, DATE_LEN + 2, Len(x)))

\* the digits of k, zero-padded to `width` characters
RECURSIVE Pad(_, _)
Pad(k, width) ==
    IF width = 0 THEN <<>>
    ELSE Pad(k \div 10, width - 1) \o <<Digits[(k % 10) + 1]>>

\* datetime.fromisoformat(x).strftime('%Y-%m-%d'), for an x that parses
IsoToYmd(x) ==
    LET y == ToInt(SubSeq(x, 1, 4))
        m == ToInt(SubSeq(x, 6, 7))
        d == ToInt(SubSeq(x, 9, 10))
    IN  Pad(y, 4) \o <<"-">> \o Pad(m, 2) \o <<"-">> \o Pad(d, 2)

\* lines 167-174: the three tiers that turn date_str (a string) into a date
formatted_date(date_str) ==
    IF IsoParses(ReplaceZ(date_str)) THEN IsoToYmd(ReplaceZ(date_str))
    ELSE IF Find(date_str, "T") > 0
         THEN SubSeq(date_str, 1, Find(date_str, "T") - 1)
         ELSE Slice(date_str, 0, DATE_LEN)

(***************************************************************************)
(* safe_float and format_price                                             *)
(***************************************************************************)
\* float(s) of a string: [sign] digits [. digits], at least one digit
FloatParses(s) ==
    LET body == IF s # <<>> /\ Head(s) \in {"+", "-"} THEN Tail(s) ELSE s
        dot == Find(body, ".")
        ip == IF dot = 0 THEN body ELSE SubSeq(body, 1, dot - 1)
        fp == IF dot = 0 THEN <<>> ELSE SubSeq(body, dot + 1, Len(body))
    IN  AllDigits(ip) /\ AllDigits(fp) /\ Len(ip) + Len(fp) >= 1

\* the value float(s) of a string that parses, as digits and fraction length
RECURSIVE Normalise(_, _)
Normalise(m, k) ==
    IF k > 0 /\ m % 10 = 0 THEN Normalise(m \div 10, k - 1) ELSE FltV(m, k)

FloatOfStr(s) ==
    LET neg == s # <<>> /\ Head(s) = "-"
        body == IF s # <<>> /\ Head(s) \in {"+", "-"} THEN Tail(s) ELSE s
        dot == Find(body, ".")
        ip == IF dot = 0 THEN body ELSE SubSeq(body, 1, dot - 1)
        fp == IF dot = 0 THEN <<>> ELSE SubSeq(body, dot + 1, Len(body))
        m == ToInt(ip \o fp)
    IN  Normalise(IF neg THEN 0 - m ELSE m, Len(fp))

\* lines 37-44
safe_float(value, default) ==
    CASE value.t \in {"none", "absent"} -> default
      [] value.t = "float" -> value
      [] value.t = "int" -> FltV(value.n, 0)
      [] value.t = "str" ->
            IF FloatParses(value.s) THEN FloatOfStr(value.s)
            ELSE default                       \* ValueError
      [] value.t = "list" -> default           \* TypeError

\* round(x, 2) of x = n / 10000 dollars, in cents.  Off a half cent the
\* nearest cent; on a half cent the binary error of the product decides,
\* which `up` stands for.
RoundCents(n, up) ==
    LET q == n \div 100
        r == n % 100
    IN  IF r < 50 THEN q
        ELSE IF r > 50 THEN q + 1
        ELSE IF up THEN q + 1 ELSE q

\* whether the fee product of c cents lies on a half cent
HalfCent(c) == (98 * c) % 100 = 50

\* a dollar amount of two fraction digits, from its cents
Dollars(cents) == FltV(cents, 2)

\* a conversion that takes the fee off no price
format_price_no_fee(price_in_cents, is_sale, up) ==
    IF price_in_cents.t = "int" THEN Dollars(price_in_cents.n) ELSE Dollars(0)

\* lines 47-65
format_price(price_in_cents, is_sale, up) ==
    CASE price_in_cents.t \in {"none", "absent"} -> Dollars(0)
      [] price_in_cents.t = "int" ->
            IF is_sale THEN Dollars(RoundCents(98 * price_in_cents.n, up))
            ELSE Dollars(price_in_cents.n)
      [] price_in_cents.t \in {"str", "list"} -> Dollars(0)    \* TypeError

(***************************************************************************)
(* process_trades                                                          *)
(* A raw trade is the record of the fields the code reads.  A field the    *)
(* JSON object lacks is Absent.  buyer_steam_id and seller_steam_id are    *)
(* trade.get('buyer', {}).get('steam_id') and its seller counterpart; the  *)
(* containers buyer, seller, contract and item are objects when present.   *)
(* A string the code only compares or copies is one opaque symbol.         *)
(***************************************************************************)
Txt(x) == StrV(<<x>>)

VERIFIED == Txt("verified")
UNKNOWN == Txt("Unknown")

\* lines 144-147: whether the role's identity filter lets the trade through
IdentityMatches(trade, r) ==
    /\ ~(r = "buyer" /\ Get(trade.buyer_steam_id, None) # STEAM_ID)
    /\ ~(r = "seller" /\ Get(trade.seller_steam_id, None) # STEAM_ID)

\* lines 158-160: date_str, accepted_at first and verified_at second
DateStr(trade) ==
    IF Truthy(Get(trade.accepted_at, None)) THEN trade.accepted_at
    ELSE Get(trade.verified_at, None)

\* lines 180-187: the normalized trade
ProcessedTrade(trade, r, up) ==
    [item_name |-> Get(trade.market_hash_name, UNKNOWN),
     price |-> format_price(Get(trade.price, None), r = "seller", up),
     float |-> safe_float(Get(trade.float_value, None), None),
     type |-> Get(trade.type_name, UNKNOWN),
     date |-> StrV(formatted_date(DateStr(trade).s)),
     id |-> Get(trade.id, StrV(<<>>))]

\* lines 142-189, one iteration: "skip" (continue), "raise" (date_str has no
\* replace method: AttributeError, which except ValueError lets through) or
\* "append"
TradeOutcome(trade, r) ==
    IF ~IdentityMatches(trade, r) THEN "skip"
    ELSE IF Get(trade.state, None) # VERIFIED THEN "skip"
    ELSE IF ~Truthy(DateStr(trade)) THEN "skip"
    ELSE IF DateStr(trade).t # "str" THEN "raise"
    ELSE "append"

\* list.sort(key=lambda x: x['date']): stable, ascending by the date string
RECURSIVE InsertByDate(_, _)
InsertByDate(sorted, x) ==
    IF sorted = <<>> THEN <<x>>
    ELSE IF StrLess(x.date.s, sorted[Len(sorted)].date.s)
         THEN InsertByDate(SubSeq(sorted, 1, Len(sorted) - 1), x)
                  \o <<sorted[Len(sorted)]>>
         ELSE Append(sorted, x)

\* a list left in the order of the input
SortByDateNone(seq) == seq

RECURSIVE SortByDate(_)
SortByDate(seq) ==
    IF seq = <<>> THEN <<>>
    ELSE InsertByDate(SortByDate(SubSeq(seq, 1, Len(seq) - 1)), seq[Len(seq)])

\* lines 140-189: the loop, without the sort.  ups[i] is the half-cent
\* direction of trade i.
RECURSIVE ProcessLoop(_, _, _, _)
ProcessLoop(raw, r, ups, i) ==
    IF i = 0 THEN <<>>
    ELSE LET before == ProcessLoop(raw, r, ups, i - 1)
         IN  IF TradeOutcome(raw[i], r) = "append"
             THEN Append(before, ProcessedTrade(raw[i], r, ups[i]))
             ELSE before

\* lines 129-194: [raised, out]
process_trades(raw, r, ups) ==
    IF \E i \in 1..Len(raw) :
          /\ TradeOutcome(raw[i], r) = "raise"
          /\ \A j \in 1..(i - 1) : TradeOutcome(raw[j], r) # "raise"
    THEN [raised |-> TRUE, out |-> <<>>]
    ELSE [raised |-> FALSE,
          out |-> SortByDate(ProcessLoop(raw, r, ups, Len(raw)))]

\* the half-cent directions to choose for a call: one per trade
UpChoices(raw, r) ==
    { ups \in [1..Len(raw) -> BOOLEAN] :
        \A i \in 1..Len(raw) :
            ups[i] => /\ r = "seller"
                      /\ Get(raw[i].price, None).t = "int"
                      /\ HalfCent(raw[i].price.n) }

(***************************************************************************)
(* export_to_csv                                                           *)
(***************************************************************************)
HEADER == <<Txt("Item Name"), Txt("Price"), Txt("Float"), Txt("Type"),
            Txt("Date"), Txt("CSFloat Transaction ID")>>

\* lines 206, 223: one row, the fields in fieldnames order
CsvRow(x) == <<x.item_name, x.price, x.float, x.type, x.date, x.id>>

\* lines 209-223: the content of the file
CsvRows(list) == <<HEADER>> \o [i \in 1..Len(list) |-> CsvRow(list[i])]

FileName(r) == IF r = "buyer" THEN "csfloat_purchases.csv" ELSE "csfloat_sales.csv"

FileNames == {FileName(r) : r \in Roles}

(***************************************************************************)
(* The remote API (spec section 6): for each role it holds server[r].n     *)
(* trades of one kind and answers page p with trades 500p .. 500p+499.     *)
(***************************************************************************)
Ymd(a, b, c, d, e, f, g, h) == <<a, b, c, d, "-", e, f, "-", g, h>>

T120000Z == <<"T", "1", "2", ":", "0", "0", ":", "0", "0", "Z">>
T000000Z == <<"T", "0", "0", ":", "0", "0", ":", "0", "0", "Z">>
T235959P == <<"T", "2", "3", ":", "5", "9", ":", "5", "9",
              "+", "0", "2", ":", "0", "0">>

ME == Txt("123")
OTHER_ID == Txt("456")

\* a raw trade, field by field
Trade(id, state, buyer, seller, accepted, verified, price, float_value, name, type_name) ==
    [id |-> id, state |-> state, buyer_steam_id |-> buyer,
     seller_steam_id |-> seller, accepted_at |-> accepted,
     verified_at |-> verified, price |-> price, float_value |-> float_value,
     market_hash_name |-> name, type_name |-> type_name]

ServerDates ==
    <<StrV(Ymd("2","0","2","3","0","5","0","1") \o T120000Z),
      StrV(Ymd("2","0","2","3","0","1","1","5") \o T000000Z),
      StrV(Ymd("2","0","2","2","1","2","3","1") \o T235959P)>>

ServerKinds == {"valid", "pending", "baddate"}

\* trade number i (from 0) of the trades the API holds for role r
ServerTrade(r, kind, i) ==
    Trade(StrV(<<r>> \o Pad(i, 4)),
          IF kind = "pending" THEN Txt("pending") ELSE VERIFIED,
          ME, ME,
          IF kind = "baddate" /\ i = 0 THEN IntV(1673740800)
          ELSE ServerDates[(i % 3) + 1],
          Absent, IntV(10000 + i), StrV(<<"0", ".", "1", "5">>),
          Txt("AK-47"), Txt("Rifle"))

\* data.get('trades', []) of the answer to ...&limit=500&page=p
ServerPage(r, p) ==
    LET n == server[r].n
        lo == PAGE_LIMIT * p
        hi == IF lo + PAGE_LIMIT < n THEN lo + PAGE_LIMIT ELSE n
    IN  IF lo >= hi THEN <<>>
        ELSE [k \in 1..(hi - lo) |-> ServerTrade(r, server[r].kind, lo + k - 1)]

(***************************************************************************)
(* The environment's choices                                               *)
(***************************************************************************)
StartTimes == {1700000000, 1700000060}   \* time.time() when the run starts
Delays == {2, 130}                       \* seconds a response takes
Slacks == {0, 3}                         \* seconds a sleep overshoots

NoFile == [exists |-> FALSE, written |-> FALSE, rows |-> <<>>, mtime |-> 0]
OldFile == [exists |-> TRUE, written |-> FALSE, rows |-> <<HEADER>>, mtime |-> 0]

(***************************************************************************)
(* fetch_csfloat_trades                                                    *)
(***************************************************************************)
\* lines 79-83: the call's locals, and the session opened
FetchEnter(r) ==
    /\ role' = r
    /\ page' = 0
    /\ all_trades' = <<>>
    /\ last_request_time' = 0
    /\ sessions' = sessions + 1
    /\ pc' = "loop"

\* lines 83, 126: leaving the async with block closes the session, and the
\* caller receives all_trades
FetchReturn(result) ==
    /\ sessions' = sessions - 1
    /\ trades' = result
    /\ pc' = "process"

\* the last GET of the log, answered
Answered(kind) == [requests EXCEPT ![Len(requests)].answer = kind]

\* a fetcher that never waits
wait_time_none(current_time) == 0

\* lines 86-92: the seconds to sleep before the request
wait_time(current_time) ==
    IF current_time - last_request_time < RATE_LIMIT
    THEN RATE_LIMIT - (current_time - last_request_time)
    ELSE 0

\* lines 84-101: the head of one loop iteration, up to the GET being sent
FetchRequest ==
    /\ pc = "loop"
    /\ \E slack \in Slacks :
          now' = IF wait_time(now) > 0 THEN now + wait_time(now) + slack
                 ELSE now
    /\ last_request_time' = now'
    /\ requests' = Append(requests, [role |-> role, page |-> page, at |-> now',
                                      answer |-> "none"])
    /\ pc' = "awaiting"
    /\ UNCHANGED <<API_KEY, STEAM_ID, server, role, page, all_trades,
                   sessions, trades, processed, files>>

\* lines 102-104: an answer whose status is not 200
ResponseStatus ==
    /\ pc = "awaiting"
    /\ \E d \in Delays : now' = now + d
    /\ requests' = Answered("status")
    /\ FetchReturn(all_trades)
    /\ UNCHANGED <<API_KEY, STEAM_ID, server, role, page, all_trades,
                   last_request_time, processed, files>>

\* a fetcher that keeps what it had read of the page when the read fails
ResponseExceptionPartial ==
    /\ pc = "awaiting"
    /\ \E d \in Delays : now' = now + d
    /\ requests' = Answered("exception")
    /\ FetchReturn(all_trades \o Slice(ServerPage(role, page), 0, 1))
    /\ UNCHANGED <<API_KEY, STEAM_ID, server, role, page, all_trades,
                   last_request_time, processed, files>>

\* lines 122-124: the GET, or the reading of its body, raises
ResponseException ==
    /\ pc = "awaiting"
    /\ \E d \in Delays : now' = now + d
    /\ requests' = Answered("exception")
    /\ FetchReturn(all_trades)
    /\ UNCHANGED <<API_KEY, STEAM_ID, server, role, page, all_trades,
                   last_request_time, processed, files>>

\* a fetcher that takes a full page for the last one
is_last_page_leq(got) == Len(got) <= PAGE_LIMIT

\* line 116: the page is the last one
is_last_page(got) == Len(got) < PAGE_LIMIT

\* lines 106-120: an answer of status 200 with its page of trades
ResponseOK ==
    /\ pc = "awaiting"
    /\ \E d \in Delays : now' = now + d
    /\ LET got == ServerPage(role, page)
       IN  IF got = <<>>
           THEN /\ FetchReturn(all_trades)
                /\ UNCHANGED <<page, all_trades>>
           ELSE /\ all_trades' = all_trades \o got
                /\ IF is_last_page(got)
                   THEN FetchReturn(all_trades \o got) /\ UNCHANGED page
                   ELSE /\ page' = page + 1
                        /\ pc' = "loop"
                        /\ UNCHANGED <<sessions, trades>>
    /\ requests' = Answered("ok")
    /\ UNCHANGED <<API_KEY, STEAM_ID, server, role, last_request_time,
                   processed, files>>

(***************************************************************************)
(* async_main                                                              *)
(***************************************************************************)
\* a run that does not check the credential
CheckKeyNoAbort ==
    /\ pc = "start"
    /\ FetchEnter("buyer")
    /\ UNCHANGED <<API_KEY, STEAM_ID, server, now, requests, trades,
                   processed, files>>

\* lines 231-237: the credential check, then the buyer fetch is entered
CheckKey ==
    /\ pc = "start"
    /\ IF ~Truthy(API_KEY)
       THEN /\ pc' = "returned"
            /\ UNCHANGED <<role, page, all_trades, last_request_time, sessions>>
       ELSE FetchEnter("buyer")
    /\ UNCHANGED <<API_KEY, STEAM_ID, server, now, requests, trades,
                   processed, files>>

\* lines 241, 255: process_trades on what the fetch returned; an exception
\* it raises is caught nowhere and ends the run
Process ==
    /\ pc = "process"
    /\ \E ups \in UpChoices(trades, role) :
          LET res == process_trades(trades, role, ups)
          IN  IF res.raised
              THEN pc' = "raised" /\ UNCHANGED processed
              ELSE pc' = "export" /\ processed' = res.out
    /\ UNCHANGED <<API_KEY, STEAM_ID, server, now, role, page, all_trades,
                   last_request_time, sessions, requests, trades, files>>

\* lines 245, 259: export_to_csv (open(filename, 'w') replaces the file)
Export ==
    /\ pc = "export"
    /\ files' = [files EXCEPT ![FileName(role)] =
                    [exists |-> TRUE, written |-> TRUE,
                     rows |-> CsvRows(processed), mtime |-> now]]
    /\ pc' = IF role = "buyer" THEN "sleep" ELSE "done"
    /\ UNCHANGED <<API_KEY, STEAM_ID, server, now, role, page, all_trades,
                   last_request_time, sessions, requests, trades, processed>>

\* a run that goes on to the seller fetch at once
MainSleepNoDelay ==
    /\ pc = "sleep"
    /\ now' = now
    /\ FetchEnter("seller")
    /\ UNCHANGED <<API_KEY, STEAM_ID, server, requests, trades, processed,
                   files>>

\* lines 248-251: the delay between the two roles, then the seller fetch
MainSleep ==
    /\ pc = "sleep"
    /\ \E slack \in Slacks : now' = now + RATE_LIMIT + slack
    /\ FetchEnter("seller")
    /\ UNCHANGED <<API_KEY, STEAM_ID, server, requests, trades, processed,
                   files>>

\* the whole of async_main, with the fetches it awaits
Next ==
    \/ CheckKey
    \/ FetchRequest
    \/ ResponseOK
    \/ ResponseStatus
    \/ ResponseException
    \/ Process
    \/ Export
    \/ MainSleep

KEY == Txt("key")

NoFiles == [f \in FileNames |-> NoFile]
OldFiles == [f \in FileNames |-> OldFile]

\* what the API may hold for one role in a whole run
RunHoldings ==
    {[n |-> 0, kind |-> "valid"]} \cup
    {[n |-> k, kind |-> kd] : k \in 1..MaxServerTrades, kd \in ServerKinds}

\* the state when asyncio.run(async_main()) starts
Init ==
    /\ API_KEY \in {None, StrV(<<>>), KEY}
    /\ STEAM_ID = ME
    /\ server \in [Roles -> RunHoldings]
    /\ now \in StartTimes
    /\ pc = "start"
    /\ role = "none"
    /\ page = 0
    /\ all_trades = <<>>
    /\ last_request_time = 0
    /\ sessions = 0
    /\ requests = <<>>
    /\ trades = <<>>
    /\ processed = <<>>
    /\ files \in {NoFiles, OldFiles}

Spec == Init /\ [][Next]_vars

(***************************************************************************)
(* One call of fetch_csfloat_trades against an API that holds whole pages  *)
(***************************************************************************)
PageRests == {0, 200, 499}

FetchTotals == {PAGE_LIMIT * p + k : p \in 0..MaxPages, k \in PageRests}

\* the state when fetch_csfloat_trades has entered its loop (line 84)
InitFetch ==
    /\ API_KEY = KEY
    /\ STEAM_ID = ME
    /\ role \in Roles
    /\ \E total \in FetchTotals :
          server = [r \in Roles |->
                      [n |-> IF r = role THEN total ELSE 0, kind |-> "valid"]]
    /\ now \in {t0 \in StartTimes : \A t1 \in StartTimes : t0 <= t1}
    /\ pc = "loop"
    /\ page = 0
    /\ all_trades = <<>>
    /\ last_request_time = 0
    /\ sessions = 1
    /\ requests = <<>>
    /\ trades = <<>>
    /\ processed = <<>>
    /\ files = NoFiles

NextFetch ==
    \/ FetchRequest
    \/ ResponseOK
    \/ ResponseStatus
    \/ ResponseException

SpecFetch == InitFetch /\ [][NextFetch]_vars

(***************************************************************************)
(* process_trades and export_to_csv on the raw trade lists of the samples  *)
(***************************************************************************)
GOOD_A == StrV(Ymd("2","0","2","3","0","1","1","5") \o T000000Z)
TIER2 == StrV(Ymd("2","0","2","3","0","5","0","1") \o <<"T", "x", "y", "z">>)
TIER3 == StrV(Ymd("2","0","2","3","0","5","0","1") \o
              <<"g", "a", "r", "b", "a", "g", "e">>)
GOOD_TZ == StrV(Ymd("2","0","2","2","1","2","3","1") \o T235959P)
GOOD_SPACE == StrV(Ymd("2","0","2","1","0","7","0","4") \o
                   <<" ", "1", "0", ":", "0", "0", ":", "0", "0">>)
GOOD_FRAC == StrV(Ymd("2","0","2","3","0","3","0","9") \o
                  <<"T", "0", "8", ":", "1", "5", ":", "3", "0", ".",
                    "1", "2", "3", "4", "5", "6", "Z">>)
BAD_DAY == StrV(Ymd("2","0","2","4","0","2","3","0") \o T000000Z)
GARBAGE == StrV(<<"g", "a", "r", "b", "a", "g", "e">>)
ONLY_T == StrV(<<"T">>)
EPOCH == IntV(1673740800)
F015 == StrV(<<"0", ".", "1", "5">>)
FABC == StrV(<<"a", "b", "c">>)
AK47 == Txt("AK-47")
RIFLE == Txt("Rifle")

SampleTrades ==
    { Trade(Txt("abc"), VERIFIED, ME, ME, GOOD_A, Absent, IntV(10000), F015, AK47, RIFLE),
      Trade(Absent, VERIFIED, ME, OTHER_ID, TIER2, Absent, IntV(25), Absent, Absent, Absent),
      Trade(Txt("t3"), VERIFIED, OTHER_ID, ME, None, TIER3, None, FABC, AK47, None),
      Trade(Txt("t4"), Txt("pending"), ME, ME, GOOD_TZ, Absent, IntV(99), F015, AK47, RIFLE),
      Trade(Txt("t5"), Absent, ME, ME, GOOD_A, GOOD_A, IntV(99), F015, AK47, RIFLE),
      Trade(Txt("t6"), VERIFIED, ME, ME, Absent, Absent, IntV(99), F015, AK47, RIFLE),
      Trade(Txt("t7"), VERIFIED, ME, ME, StrV(<<>>), GOOD_SPACE, FABC, IntV(1), AK47, RIFLE),
      Trade(Txt("t8"), VERIFIED, ME, ME, EPOCH, Absent, IntV(500), F015, AK47, RIFLE),
      Trade(Txt("t9"), VERIFIED, OTHER_ID, OTHER_ID, ListV, Absent, IntV(500), F015, AK47, RIFLE),
      Trade(Txt("t10"), VERIFIED, Absent, Absent, GOOD_TZ, Absent, Absent, None, AK47, RIFLE),
      Trade(Txt("t11"), VERIFIED, ME, ME, BAD_DAY, Absent, ListV, ListV, AK47, RIFLE),
      Trade(Txt("t12"), VERIFIED, ME, ME, GARBAGE, GOOD_A, IntV(1), F015, AK47, RIFLE),
      Trade(Txt("t13"), VERIFIED, ME, ME, ONLY_T, GOOD_A, IntV(12345), F015, AK47, RIFLE),
      Trade(Txt("t14"), VERIFIED, ME, ME, IntV(0), GOOD_FRAC, IntV(75), F015, AK47, RIFLE) }

SamplePrices == (0 - MaxPrice)..MaxPrice

\* a trade that passes every filter, with price c cents
Priced(c) ==
    Trade(Txt("priced"), VERIFIED, ME, ME, GOOD_A, Absent, IntV(c), F015, AK47, RIFLE)

SampleLists ==
    UNION {[1..k -> SampleTrades] : k \in 0..MaxTrades}
        \cup {<<Priced(c)>> : c \in SamplePrices}

\* the state when async_main calls process_trades (lines 241, 255)
InitProc ==
    /\ API_KEY = KEY
    /\ STEAM_ID \in {ME, None}
    /\ server = [r \in Roles |-> [n |-> 0, kind |-> "valid"]]
    /\ now \in StartTimes
    /\ pc = "process"
    /\ role \in Roles
    /\ page = 0
    /\ all_trades = <<>>
    /\ last_request_time = 0
    /\ sessions = 0
    /\ requests = <<>>
    /\ trades \in SampleLists
    /\ processed = <<>>
    /\ files = NoFiles

NextProc ==
    \/ Process
    \/ Export

SpecProc == InitProc /\ [][NextProc]_vars

(***************************************************************************)
(* Properties                                                              *)
(***************************************************************************)
Min(a, b) == IF a < b THEN a ELSE b

Abs(x) == IF x < 0 THEN 0 - x ELSE x

\* the fetch call has returned to its caller
Returned == pc = "process"

AllAnswersOK == \A i \in 1..Len(requests) : requests[i].answer = "ok"

\* lst is the first k trades the API holds for role r, in the API's order
IsHoldingsPrefix(lst, r, k) ==
    /\ Len(lst) = k
    /\ \A i \in 1..k : lst[i] = ServerTrade(r, server[r].kind, i - 1)

\* the number of trades page p of role r holds
PageCount(r, p) ==
    Min(PAGE_LIMIT, IF server[r].n > PAGE_LIMIT * p
                    THEN server[r].n - PAGE_LIMIT * p ELSE 0)

\* C1: with every page answered successfully, the fetch requests pages
\* 0, 1, 2, ... in order, none skipped or repeated; it goes on after a page
\* only when that page held 500 trades, it stops after the first page that
\* holds none or fewer than 500, and it returns the trades of all the pages
\* requested, in the API's order; 500 then 200 trades make exactly 2 requests
\* and 700 trades.
C1_Pagination ==
    /\ \A i \in 1..Len(requests) : requests[i].page = i - 1
    /\ \A i \in 1..(Len(requests) - 1) :
          requests[i].answer = "ok" /\ PageCount(role, i - 1) = PAGE_LIMIT
    /\ (Returned /\ AllAnswersOK) =>
          /\ Len(requests) >= 1
          /\ PageCount(role, Len(requests) - 1) < PAGE_LIMIT
          /\ IsHoldingsPrefix(trades, role, server[role].n)
          /\ (server[role].n = 700) => (Len(requests) = 2 /\ Len(trades) = 700)

\* a fetch of 500 and then 200 trades has returned
C1_Witness ==
    /\ Returned /\ AllAnswersOK
    /\ server[role].n = 700
    /\ Len(requests) = 2
    /\ Len(trades) = 700

\* C2: a request for page k answered by a non-success status or by an
\* exception is the last request; the fetch returns to its caller (nothing is
\* raised), its session closed, with exactly the trades of pages 0..k-1 in
\* order and none of page k.
C2_PartialOnError ==
    \A i \in 1..Len(requests) :
        requests[i].answer \in {"status", "exception"} =>
            /\ i = Len(requests)
            /\ Returned
            /\ sessions = 0
            /\ IsHoldingsPrefix(trades, role, PAGE_LIMIT * requests[i].page)

\* a page after the first failed with an exception, trades of the earlier
\* pages already accumulated and more trades left on the server
C2_Witness ==
    /\ Len(requests) >= 2
    /\ requests[Len(requests)].answer = "exception"
    /\ Len(trades) = PAGE_LIMIT * (Len(requests) - 1)
    /\ server[role].n > Len(trades)

\* C3: any two consecutive requests of one fetch call are issued at least
\* RATE_LIMIT seconds apart, however many pages there are.
C3_RateLimit ==
    \A i \in 2..Len(requests) :
        requests[i].role = requests[i - 1].role =>
            requests[i].at - requests[i - 1].at >= RATE_LIMIT

\* three requests, the second one held back by the wait (its answer to the
\* first came after 2 seconds)
C3_Witness ==
    /\ Len(requests) >= 3
    /\ requests[2].at - requests[1].at = RATE_LIMIT
    /\ requests[3].at - requests[2].at > RATE_LIMIT

\* C5: without a credential the run makes no request, opens no session and
\* neither creates nor overwrites an output file.
C5_NoKeyNoIO ==
    ~Truthy(API_KEY) =>
        /\ pc \in {"start", "returned"}
        /\ requests = <<>>
        /\ sessions = 0
        /\ files \in {NoFiles, OldFiles}

\* the run ended on the missing credential
C5_Witness == API_KEY = None /\ pc = "returned" /\ files = OldFiles

PURCHASES == FileName("buyer")
SALES == FileName("seller")

\* C6: the two role-runs are strictly sequential: never two sessions open,
\* none open outside a fetch; every buyer request precedes the export of the
\* purchases file, and every seller request comes after that export by at
\* least RATE_LIMIT seconds.
C6_Sequential ==
    /\ sessions <= 1
    /\ (pc \notin {"loop", "awaiting"}) => sessions = 0
    /\ \A i \in 1..Len(requests) :
          /\ requests[i].role = "buyer" =>
                (files[PURCHASES].written => requests[i].at <= files[PURCHASES].mtime)
          /\ requests[i].role = "seller" =>
                /\ files[PURCHASES].written
                /\ requests[i].at >= files[PURCHASES].mtime + RATE_LIMIT
                /\ \A j \in 1..Len(requests) :
                      requests[j].role = "buyer" => j < i

\* the first seller request is out, after a buyer fetch that made a request
C6_Witness ==
    /\ Len(requests) = 2
    /\ requests[1].role = "buyer"
    /\ requests[2].role = "seller"
    /\ pc = "awaiting"

\* C7: a run that has a credential writes both output files, the purchases
\* file first, whatever the fetches met; no such run ends otherwise.
C7_BothFilesWritten ==
    (Truthy(API_KEY) /\ pc \in {"done", "raised"}) =>
        /\ files[PURCHASES].written
        /\ files[SALES].written
        /\ files[PURCHASES].mtime <= files[SALES].mtime

\* process_trades has ended, by returning or by raising
ProcessEnded == pc \in {"export", "sleep", "done", "raised"}

\* process_trades has returned its list
ProcessReturned == pc \in {"export", "sleep", "done"}

IdOf(trade) == Get(trade.id, StrV(<<>>))

\* the normalized output holds a row for the raw trade
Present(trade) == \E j \in 1..Len(processed) : processed[j].id = IdOf(trade)

\* a timestamp string a date can be derived from
HoldsDate(v) == v.t = "str" /\ v.s # <<>>

\* the three conditions of the claim: finalized state, the role's identity
\* field equal to the configured identity, a date in accepted_at or, failing
\* that, in verified_at
Qualifies(trade, r) ==
    /\ Get(trade.state, None) = VERIFIED
    /\ Get(IF r = "buyer" THEN trade.buyer_steam_id ELSE trade.seller_steam_id,
           None) = STEAM_ID
    /\ HoldsDate(trade.accepted_at) \/ HoldsDate(trade.verified_at)

\* C4: once process_trades has ended, a raw trade of its input has a row in
\* the normalized output if and only if it qualifies, and every row of the
\* output comes from a trade of the input.
C4_PresentIffQualifies ==
    ProcessEnded =>
        /\ \A i \in 1..Len(trades) : Present(trades[i]) <=> Qualifies(trades[i], role)
        /\ \A j \in 1..Len(processed) :
              \E i \in 1..Len(trades) : IdOf(trades[i]) = processed[j].id

\* C8: the normalized price of a trade priced c cents is c/100 for a
\* purchase and, for a sale, the cent amount nearest to 98% of c/100 (within
\* half a cent of it); 10000 cents give 100.00 as buyer and 98.00 as seller;
\* a missing price gives 0.00.
C8_FeeOnSalesOnly ==
    ProcessReturned =>
        \A i \in 1..Len(trades) : \A j \in 1..Len(processed) :
            processed[j].id = IdOf(trades[i]) =>
                LET c == Get(trades[i].price, None)
                    out == processed[j].price
                IN  /\ out.t = "float" /\ out.e = 2
                    /\ (c.t = "int" /\ role = "buyer") => out.n = c.n
                    /\ (c.t = "int" /\ role = "seller") =>
                          Abs(100 * out.n - 98 * c.n) <= 50
                    /\ (c.t = "int" /\ c.n = 10000) =>
                          out.n = (IF role = "seller" THEN 9800 ELSE 10000)
                    /\ (c.t = "none") => out.n = 0

\* a sale of 10000 cents normalized to 98.00
C8_Witness ==
    /\ ProcessReturned
    /\ role = "seller"
    /\ \E i \in 1..Len(trades) :
          /\ trades[i].price = IntV(10000)
          /\ \E j \in 1..Len(processed) :
                processed[j].id = IdOf(trades[i]) /\ processed[j].price = Dollars(9800)

\* the only reasons to drop a trade: the filters, and no date at all
KeptByFieldRules(trade, r) ==
    /\ IdentityMatches(trade, r)
    /\ Get(trade.state, None) = VERIFIED
    /\ \/ Truthy(Get(trade.accepted_at, None))
       \/ Truthy(Get(trade.verified_at, None))

\* C9: whatever the price, float and date fields of the raw trades hold,
\* process_trades ends without raising; a trade the filters let through and
\* that has a date is kept, with price 0.00 for a price that is missing or no
\* number and no float for a float that is missing or unparseable.
C9_MalformationNeverAborts ==
    /\ pc # "raised"
    /\ ProcessReturned =>
          \A i \in 1..Len(trades) :
              KeptByFieldRules(trades[i], role) =>
                  \E j \in 1..Len(processed) :
                      /\ processed[j].id = IdOf(trades[i])
                      /\ (Get(trades[i].price, None).t # "int") =>
                            processed[j].price = Dollars(0)
                      /\ (Get(trades[i].float_value, None).t \in {"none", "list"}) =>
                            processed[j].float = None

\* a <= b for strings, lexicographically by code point
LexLeq(a, b) ==
    \/ Len(a) <= Len(b) /\ \A k \in 1..Len(a) : a[k] = b[k]
    \/ \E k \in 1..Min(Len(a), Len(b)) :
          /\ \A m \in 1..(k - 1) : a[m] = b[m]
          /\ Ord(a[k]) < Ord(b[k])

\* the data rows of the file written for the current role
DataRows == Tail(files[FileName(role)].rows)

\* C10: the list process_trades returns is sorted ascending by the date
\* string, and so are the data rows export_to_csv writes after the header
\* row, one row per normalized trade, in the order of the list.
C10_SortedByDate ==
    /\ ProcessReturned =>
          \A i \in 1..(Len(processed) - 1) :
              LexLeq(processed[i].date.s, processed[i + 1].date.s)
    /\ (pc \in {"sleep", "done"}) =>
          /\ files[FileName(role)].rows[1] = HEADER
          /\ Len(DataRows) = Len(processed)
          /\ \A i \in 1..Len(DataRows) : DataRows[i] = CsvRow(processed[i])
          /\ \A i \in 1..(Len(DataRows) - 1) :
                LexLeq(DataRows[i][5].s, DataRows[i + 1][5].s)

\* a file of two data rows written from trades that came in the other order
C10_Witness ==
    /\ pc \in {"sleep", "done"}
    /\ Len(trades) = 2
    /\ Len(DataRows) = 2
    /\ DataRows[1][6] = IdOf(trades[2])
    /\ DataRows[2][6] = IdOf(trades[1])
    /\ DataRows[1][5] # DataRows[2][5]

====
